---- MODULE Spec2Model ----
(***************************************************************************)
(* Pittsburgh Water HUD (src/app.py): one run of the dashboard script as a *)
(* state machine.  A run fetches the provider payloads, parses the         *)
(* Open-Meteo fields, computes the composite conditions score and renders  *)
(* the score banner, the river cards and the weather panels.               *)
(*                                                                         *)
(* Numbers are kept as scaled integers:                                    *)
(*   gauge height      hundredths of a foot   (17.0 ft  -> 1700)           *)
(*   wind speed        tenths of a mph        (25 mph   -> 250)            *)
(*   visibility        metres in the payload, tenths of a mile after the   *)
(*                     conversion of line 540                              *)
(*   precipitation sum hundredths of an inch  (0.5 in   -> 50)             *)
(*   AQI, weather code, precipitation probability: integers                *)
(* An optional value (Python None / missing key / JSON null) is the empty  *)
(* sequence; a present value v is <<v>>.                                   *)
(* Glyphs of the source's labels that are not ASCII are left out of the    *)
(* strings; the em dash placeholder is written "--".                       *)
(***************************************************************************)
EXTENDS Integers, Sequences, FiniteSets, TLC

\* ------------------------------------------------------------ optionals --

None == <<>>

Some(v) == <<v>>

Val(o) == o[1]

\* Python truthiness of an optional number: None and 0 are falsy.
Truthy(o) == o # None /\ Val(o) # 0

\* ---------------------------------------------------------------- bounds --

\* Half-width of the window of grid points taken around each threshold.
Margin == 1

\* Longest alert sequence a provider response carries.
MaxAlerts == 2

\* Highest threshold, in feet, drawn for a direct call of stage_status.
MaxStageFt == 4

Near(t) == (t - Margin)..(t + Margin)

\* ---------------------------------------------------------------- config --

RiverOrder == <<"Monongahela", "Allegheny", "Ohio">>

RiverNames == {RiverOrder[i] : i \in 1..Len(RiverOrder)}

RIVERS ==
  [Monongahela |-> [site_id |-> "03085000", action_stage |-> 1700, flood_stage |-> 2500],
   Allegheny   |-> [site_id |-> "03049640", action_stage |-> 1800, flood_stage |-> 2500],
   Ohio        |-> [site_id |-> "03086000", action_stage |-> 1600, flood_stage |-> 2400]]

\* The "elevated" band below the action stage: 3 ft.
ElevatedBand == 300

\* ----------------------------------------------------------- text helpers --

\* str.lower() on one character.
LowerChar(c) ==
  CASE c = "A" -> "a" [] c = "D" -> "d" [] c = "F" -> "f" [] c = "H" -> "h"
    [] c = "L" -> "l" [] c = "O" -> "o" [] c = "S" -> "s" [] c = "W" -> "w"
    [] OTHER -> c

\* str.lower() on a text held as a sequence of characters.
Lower(s) == [i \in 1..Len(s) |-> LowerChar(s[i])]

\* Python's  needle in haystack  for texts.
Contains(needle, hay) ==
  \E i \in 0..(Len(hay) - Len(needle)) :
    \A j \in 1..Len(needle) : hay[i + j] = needle[j]

\* format(x, ".0f") of a value held in tenths: round half to even.
Fmt0(tenths) ==
  LET n == tenths \div 10
      r == tenths % 10
  IN  IF r < 5 THEN n
      ELSE IF r > 5 THEN n + 1
      ELSE IF n % 2 = 0 THEN n ELSE n + 1

\* format(x, ".2f") of a value held in hundredths.
Fmt2(h) ==
  LET a == IF h < 0 THEN -h ELSE h
      f == a % 100
  IN  (IF h < 0 THEN "-" ELSE "") \o ToString(a \div 100) \o "."
        \o (IF f < 10 THEN "0" ELSE "") \o ToString(f)

\* str(x) of a value held in tenths, as in f"{visibility_mi} mi".
Fmt1(t) == ToString(t \div 10) \o "." \o ToString(t % 10)

\* ------------------------------------------------- provider responses --

\* Event texts of the NWS alert feed, as character sequences.
EvFlood == <<"F", "l", "o", "o", "d">>

EvFlash == <<"F", "L", "A", "S", "H">>

EvWind == <<"W", "i", "n", "d">>

Alert(ev) == [event |-> ev]

\* An event is a text, or null when the feed carries "event": null.
EventFine == {Some(EvFlood), Some(EvFlash), Some(EvWind), None}

SeqsUpTo(S, n) == UNION {[1..k -> S] : k \in 0..n}

AlertsFine == {[i \in 1..Len(q) |-> Alert(q[i])] : q \in SeqsUpTo(EventFine, MaxAlerts)}

AlertsTable == {<<>>, <<Alert(Some(EvFlood))>>}

\* Gauge readings of one river: absent, zero, negative, and the grid points
\* around the elevated, action and flood thresholds.
GaugeFine(r) ==
  {None, Some(0), Some(-100)}
    \cup {Some(g) : g \in Near(RIVERS[r].action_stage - ElevatedBand)
                          \cup Near(RIVERS[r].action_stage)
                          \cup Near(RIVERS[r].flood_stage)}

GaugeTable(r) == {None, Some(RIVERS[r].action_stage), Some(RIVERS[r].flood_stage)}

GaugeBase(r) == {None, Some(RIVERS[r].flood_stage)}

WindFine == {None, Some(0), Some(200), Some(300)} \cup {Some(w) : w \in Near(150) \cup Near(250)}

WindTable == {None, Some(200), Some(300)}

WindBase == {None, Some(300)}

CodeFine == {None, Some(0), Some(99)} \cup {Some(c) : c \in Near(95)}

CodeBase == {None, Some(95)}

\* Visibility in metres.  81 m is the first reading that rounds to 0.1 mi,
\* 725 m to 0.5 mi, 1529 m to 1.0 mi, 3139 m to 2.0 mi, 4748 m to 3.0 mi;
\* 2897 m is 1.8 mi and 3219 m is 2.0 mi.
VisFine ==
  {None, Some(0), Some(2897), Some(3219)}
    \cup {Some(v) : v \in Near(81) \cup Near(725) \cup Near(1529)
                          \cup Near(3139) \cup Near(4748)}

VisTable == {None, Some(2897), Some(500)}

VisBase == {None, Some(500)}

\* daily.precipitation_probability_max: a list whose first entry is today.
ProbFine == {<<>>, <<None>>, <<Some(0)>>, <<Some(10)>>}
              \cup {<<Some(p)>> : p \in Near(40) \cup Near(70)}

ProbBase == {<<>>, <<Some(80)>>}

\* daily.precipitation_sum, hundredths of an inch.
SumFine == {<<>>, <<None>>, <<Some(0)>>, <<Some(60)>>}
             \cup {<<Some(p)>> : p \in Near(20) \cup Near(50)}

SumBase == {<<>>}

AqiFine == {None, Some(0)} \cup {Some(a) : a \in Near(100) \cup Near(150)}

AqiTable == {None, Some(120), Some(160)}

AqiBase == {None, Some(160)}

Gauges(S1, S2, S3) == [Monongahela : S1, Allegheny : S2, Ohio : S3]

GaugesBase == Gauges(GaugeBase("Monongahela"), GaugeBase("Allegheny"), GaugeBase("Ohio"))

GaugesTable == Gauges(GaugeTable("Monongahela"), GaugeTable("Allegheny"), GaugeTable("Ohio"))

GaugesFine ==
  Gauges(GaugeFine("Monongahela"), GaugeBase("Allegheny"), GaugeBase("Ohio"))
    \cup Gauges(GaugeBase("Monongahela"), GaugeFine("Allegheny"), GaugeBase("Ohio"))
    \cup Gauges(GaugeBase("Monongahela"), GaugeBase("Allegheny"), GaugeFine("Ohio"))

\* The Open-Meteo forecast payload: the fields of "current" and "daily" the
\* script reads.
\* current.precipitation and current.cloud_cover are read with a default
\* (.get(key, 0)); None stands for a payload that lacks the key.
WeatherWith(W, C, V, N, K, P, S) ==
  [current : [wind_speed_10m : W, weather_code : C, visibility : V,
              precipitation : N, cloud_cover : K],
   daily   : [precipitation_probability_max : P, precipitation_sum : S]]

Weather(W, C, V, P, S) == WeatherWith(W, C, V, {None}, {None}, P, S)

\* current.precipitation, hundredths of an inch.
PrecipNowFine == {None, Some(0), Some(12)}

\* current.cloud_cover, percent.
CloudFine == {None, Some(0), Some(75)}

\* The precipitation inputs on their grids, in every combination, with the
\* rest of the forecast absent.
WeatherPrecip == WeatherWith({None}, {None}, {None}, PrecipNowFine, CloudFine, ProbFine, SumFine)

WeatherBase == Weather(WindBase, CodeBase, VisBase, ProbBase, SumBase)

WeatherTable == Weather(WindTable, CodeBase, VisTable, ProbBase, SumBase)

WeatherFine ==
  Weather(WindFine, CodeBase, VisBase, ProbBase, SumBase)
    \cup Weather(WindBase, CodeFine, VisBase, ProbBase, SumBase)
    \cup Weather(WindBase, CodeBase, VisFine, ProbBase, SumBase)
    \cup Weather(WindBase, CodeBase, VisBase, ProbFine, SumBase)
    \cup Weather(WindBase, CodeBase, VisBase, ProbBase, SumFine)

AirQuality(A) == [current : [us_aqi : A]]

\* What the providers answer during one run of the script: per request
\* whether it succeeds, and the payload it returns if it does.
\* malformed: the rivers whose time-series record in the USGS payload does
\* not parse (a missing key, a non-numeric value).
\* Water temperatures of the USGS payload, in tenths of a degree Celsius.
NoTemps == [r \in RiverNames |-> None]

ResponsesTemp(oks, B, G, T, W, A, E) ==
  [usgs_ok : oks, malformed : B, gauge : G, temp : T, wx_ok : oks, weather : W,
   aq_ok : oks, air_quality : A, nws_ok : oks, alerts : E]

ResponsesWith(oks, B, G, W, A, E) == ResponsesTemp(oks, B, G, {NoTemps}, W, A, E)

Responses(oks, G, W, A, E) == ResponsesWith(oks, {{}}, G, W, A, E)

NoGauges == [r \in RiverNames |-> None]

\* A water temperature: absent, 0.0, 10.0 or 20.0 degrees Celsius.
TempFine == {None, Some(0), Some(100), Some(200)}

\* The temperatures the species panel reads, everything else absent.
TempWorlds ==
  ResponsesTemp({TRUE}, {{}}, {NoGauges},
                [Monongahela : TempFine, Allegheny : TempFine, Ohio : {None}],
                Weather({None}, {None}, {None}, {<<>>}, {<<>>}),
                AirQuality({None}), {<<>>})

\* USGS payloads with at least one record that does not parse; such a
\* record carries no reading.
MalformedWorlds ==
  {w \in ResponsesWith({TRUE}, (SUBSET RiverNames) \ {{}}, GaugesBase,
                       Weather({None}, {None}, {None}, {<<>>}, {<<>>}),
                       AirQuality({None}), AlertsTable) :
     \A r \in w.malformed : w.gauge[r] = None}

\* Every rule firing: each river at flood stage, a flood alert, wind 30 mph,
\* probability 80 %, sum 0.6 in, AQI 160, visibility 0.3 mi, code 95.
LoudWorld ==
  [usgs_ok |-> TRUE, malformed |-> {},
   gauge |-> [r \in RiverNames |-> Some(RIVERS[r].flood_stage)],
   temp |-> NoTemps,
   wx_ok |-> TRUE,
   weather |-> [current |-> [wind_speed_10m |-> Some(300), weather_code |-> Some(95),
                             visibility |-> Some(500), precipitation |-> None,
                             cloud_cover |-> None],
                daily |-> [precipitation_probability_max |-> <<Some(80)>>,
                           precipitation_sum |-> <<Some(60)>>]],
   aq_ok |-> TRUE, air_quality |-> [current |-> [us_aqi |-> Some(160)]],
   nws_ok |-> TRUE, alerts |-> <<Alert(Some(EvFlood))>>]

\* LoudWorld, and LoudWorld with one optional field absent.
LoudVariants ==
  {LoudWorld}
    \cup {[LoudWorld EXCEPT !.gauge[r] = None] : r \in RiverNames}
    \cup {[LoudWorld EXCEPT !.weather.current.wind_speed_10m = None],
          [LoudWorld EXCEPT !.weather.current.weather_code = None],
          [LoudWorld EXCEPT !.weather.current.visibility = None],
          [LoudWorld EXCEPT !.weather.daily.precipitation_probability_max = <<>>],
          [LoudWorld EXCEPT !.weather.daily.precipitation_sum = <<>>],
          [LoudWorld EXCEPT !.air_quality.current.us_aqi = None],
          [LoudWorld EXCEPT !.alerts = <<>>]}

Worlds ==
  \* every combination of silent / warning / issue over the rules
  Responses({TRUE}, GaugesTable, WeatherTable, AirQuality(AqiTable), AlertsTable)
  \* one input on its fine grid, the others absent or alarming
    \cup Responses({TRUE}, GaugesFine, WeatherBase, AirQuality(AqiBase), AlertsTable)
    \cup Responses({TRUE}, GaugesBase, WeatherFine, AirQuality(AqiBase), AlertsTable)
    \cup Responses({TRUE}, GaugesBase, WeatherBase, AirQuality(AqiFine), AlertsTable)
    \cup Responses({TRUE}, GaugesBase, WeatherBase, AirQuality(AqiBase), AlertsFine)
  \* every subset of the requests failing
    \cup Responses(BOOLEAN, GaugesBase, Weather(WindBase, {None}, VisBase, {<<>>}, {<<>>}),
                   AirQuality(AqiBase), AlertsTable)
  \* the precipitation inputs, everything else absent
    \cup Responses({TRUE}, {NoGauges}, WeatherPrecip, AirQuality({None}), {<<>>})
  \* a USGS record that does not parse
    \cup MalformedWorlds
  \* everything alarming, and one field of it absent
    \cup LoudVariants
  \* the water temperatures
    \cup TempWorlds

\* ----------------------------------------------------------------- state --

VARIABLES
  pc,                 \* where the run of the script stands
  world,              \* what the providers answer during this run
  current_data,       \* fetch_usgs_current(): river -> readings
  current_err,        \* fetch_usgs_current(): the error, "" for None
  meteo_data,         \* fetch_open_meteo(): the two payloads, or {}
  nws_alerts,         \* fetch_nws_alerts(): the alert list
  wind_speed, weather_code, visibility_m, precip_prob_today, precip_sum_today,
  aqi_val, visibility_mi, precip_now, cloud_pct,
  cso_label,          \* cso_risk_from_precip()
  score_label, score_issues, score_warnings,   \* composite_score()
  detail,             \* the score banner's detail line
  status, stage_label,                         \* the river cards
  vis_str, fog_risk,                           \* the visibility panel
  cloud_sub,          \* the conditions panel's cloud cover line
  avg_temp_c,         \* the species panel's temperature, in hundredths
  species_advice,     \* which of the four advice lists is shown
  stage_cfg,          \* thresholds of the direct calls of stage_status
  stage_calls,        \* the last two direct calls: argument and result
  order_done,         \* the rules of composite_score evaluated so far
  order_issues, order_warnings,   \* what they have appended
  order_label         \* the verdict returned over the two lists

fetched == <<current_data, current_err, meteo_data, nws_alerts>>

parsed == <<wind_speed, weather_code, visibility_m, precip_prob_today, precip_sum_today,
            aqi_val, visibility_mi, precip_now, cloud_pct, cso_label>>

scored == <<score_label, score_issues, score_warnings>>

rendered == <<detail, status, stage_label, vis_str, fog_risk, cloud_sub,
              avg_temp_c, species_advice>>

stage == <<stage_cfg, stage_calls>>

order == <<order_done, order_issues, order_warnings, order_label>>

harness == <<stage, order>>

vars == <<pc, world, fetched, parsed, scored, rendered, harness>>

\* A dict with none of the keys the script reads: every .get() gives None.
EmptyReadings == [r \in RiverNames |-> [gauge_ft |-> None, temp_c |-> None]]

EmptyWeather ==
  [current |-> [wind_speed_10m |-> None, weather_code |-> None, visibility |-> None,
                precipitation |-> None, cloud_cover |-> None],
   daily   |-> [precipitation_probability_max |-> <<>>, precipitation_sum |-> <<>>]]

EmptyAirQuality == [current |-> [us_aqi |-> None]]

EmptyMeteo == [weather |-> EmptyWeather, air_quality |-> EmptyAirQuality]

NoResponses ==
  [usgs_ok |-> FALSE, malformed |-> {}, gauge |-> [r \in RiverNames |-> None],
   temp |-> [r \in RiverNames |-> None], wx_ok |-> FALSE,
   weather |-> EmptyWeather, aq_ok |-> FALSE, air_quality |-> EmptyAirQuality,
   nws_ok |-> FALSE, alerts |-> <<>>]

NotFetched ==
  /\ current_data = EmptyReadings /\ current_err = ""
  /\ meteo_data = EmptyMeteo /\ nws_alerts = <<>>

NotParsed ==
  /\ wind_speed = None /\ weather_code = None /\ visibility_m = None
  /\ precip_prob_today = None /\ precip_sum_today = None
  /\ aqi_val = None /\ visibility_mi = None
  /\ precip_now = None /\ cloud_pct = None /\ cso_label = ""

NotScored == score_label = "" /\ score_issues = <<>> /\ score_warnings = <<>>

NotRendered ==
  /\ detail = ""
  /\ status = [r \in RiverNames |-> ""]
  /\ stage_label = [r \in RiverNames |-> ""]
  /\ vis_str = "" /\ fog_risk = "" /\ cloud_sub = ""
  /\ avg_temp_c = None /\ species_advice = ""

NoRuleEvaluated ==
  /\ order_done = {} /\ order_issues = <<>> /\ order_warnings = <<>>
  /\ order_label = ""

\* Before the script has run: nothing fetched, parsed, scored or rendered.
Init ==
  /\ pc = "idle"
  /\ world = NoResponses
  /\ NotFetched /\ NotParsed /\ NotScored /\ NotRendered
  /\ stage_cfg = [action |-> 0, flood |-> 0]
  /\ stage_calls = <<>>
  /\ NoRuleEvaluated

\* ------------------------------------------------------------- fetchers --

\* Mutant of fetch_usgs_current: the failure of the request is not caught.
fetch_usgs_current_Unguarded(w) ==
  [r \in RiverNames |-> [gauge_ft |-> w.gauge[r], temp_c |-> w.temp[r]]]

\* fetch_usgs_current(): the latest gauge height per configured river, or
\* ({}, error) when the request or the parse fails.
\* One try block holds the whole loop over the records: a record that does
\* not parse raises and the except clause returns {} for the batch.
fetch_usgs_current(w) ==
  IF w.usgs_ok /\ w.malformed = {}
    THEN [r \in RiverNames |-> [gauge_ft |-> w.gauge[r], temp_c |-> w.temp[r]]]
  ELSE EmptyReadings

\* The second element of fetch_usgs_current()'s result: None ("") or str(e).
usgs_error(w) == IF w.usgs_ok /\ w.malformed = {} THEN "" ELSE "error"

\* fetch_open_meteo(): both requests sit in one try block.
fetch_open_meteo(w) ==
  IF w.wx_ok /\ w.aq_ok THEN [weather |-> w.weather, air_quality |-> w.air_quality]
  ELSE EmptyMeteo

\* fetch_nws_alerts(): the alerts of the feed, or ([], error).
fetch_nws_alerts(w) == IF w.nws_ok THEN w.alerts ELSE <<>>

\* A browser request starts a run of the script; the providers' answers for
\* the run are whatever the outside world holds.
StartRun ==
  /\ pc = "idle"
  /\ world' \in Worlds
  /\ pc' = "load"
  /\ UNCHANGED <<harness, fetched, parsed, scored, rendered>>

\* The "Loading river data" block.
LoadAllData ==
  /\ pc = "load"
  /\ current_data' = fetch_usgs_current(world)
  /\ current_err' = usgs_error(world)
  /\ meteo_data' = fetch_open_meteo(world)
  /\ nws_alerts' = fetch_nws_alerts(world)
  /\ pc' = "parse"
  /\ UNCHANGED <<harness, world, parsed, scored, rendered>>

\* (wx_daily.get(key) or [None])[0]
FirstOrNone(list) == IF list = <<>> THEN None ELSE list[1]

\* round(visibility_m / 1609.34, 1), in tenths of a mile.  No reading below
\* 80 km falls on a rounding tie.
MetersToMiles(m) == (1000 * m + 80467) \div 160934

\* visibility_mi = round(visibility_m / 1609.34, 1) if visibility_m else None
VisibilityMi(vm) == IF Truthy(vm) THEN Some(MetersToMiles(Val(vm))) ELSE None

\* wx_current.get(key, 0): the default replaces a missing key.
GetOrZero(o) == IF o = None THEN Some(0) ELSE o

\* Mutant of cso_risk_from_precip: both thresholds are required.
cso_risk_from_precip_Both(precip_24h_in, precip_prob_pct) ==
  IF precip_24h_in >= 50 /\ precip_prob_pct >= 70 THEN "HIGH OVERFLOW RISK"
  ELSE IF precip_24h_in >= 20 /\ precip_prob_pct >= 40 THEN "MODERATE RISK"
  ELSE "LOW RISK"

\* cso_risk_from_precip(precip_24h_in, precip_prob_pct): the label; the sum
\* in hundredths of an inch.
cso_risk_from_precip(precip_24h_in, precip_prob_pct) ==
  IF precip_24h_in >= 50 \/ precip_prob_pct >= 70 THEN "HIGH OVERFLOW RISK"
  ELSE IF precip_24h_in >= 20 \/ precip_prob_pct >= 40 THEN "MODERATE RISK"
  ELSE "LOW RISK"

\* The arguments of the call: (precip_sum_today or 0, precip_prob_today or 0).
CsoArgs(sum, prob) ==
  <<(IF Truthy(sum) THEN Val(sum) ELSE 0), (IF Truthy(prob) THEN Val(prob) ELSE 0)>>

\* "Parse Open-Meteo": the module-level assignments after the load.
ParseOpenMeteo ==
  /\ pc = "parse"
  /\ LET wx_current == meteo_data.weather.current
         wx_daily   == meteo_data.weather.daily
         aq_current == meteo_data.air_quality.current
     IN  /\ wind_speed' = wx_current.wind_speed_10m
         /\ weather_code' = wx_current.weather_code
         /\ visibility_m' = wx_current.visibility
         /\ precip_prob_today' = FirstOrNone(wx_daily.precipitation_probability_max)
         /\ precip_sum_today' = FirstOrNone(wx_daily.precipitation_sum)
         /\ aqi_val' = aq_current.us_aqi
         /\ visibility_mi' = VisibilityMi(wx_current.visibility)
         /\ precip_now' = GetOrZero(wx_current.precipitation)
         /\ cloud_pct' = GetOrZero(wx_current.cloud_cover)
         /\ LET args == CsoArgs(FirstOrNone(wx_daily.precipitation_sum),
                                FirstOrNone(wx_daily.precipitation_probability_max))
            IN  cso_label' = cso_risk_from_precip(args[1], args[2])
  /\ pc' = "score"
  /\ UNCHANGED <<harness, world, fetched, scored, rendered>>

\* ------------------------------------------------------ pure functions --

\* Mutant of stage_status: the flood comparison is strict.
stage_status_StrictFlood(gauge, action, flood) ==
  IF gauge = None THEN <<"unknown", "--", "#546e7a">>
  ELSE IF Val(gauge) > flood
    THEN <<"flood", "FLOOD STAGE (" \o Fmt2(Val(gauge)) \o " ft)", "#ef5350">>
  ELSE IF Val(gauge) >= action
    THEN <<"action", "ACTION STAGE (" \o Fmt2(Val(gauge)) \o " ft)", "#ffa726">>
  ELSE IF Val(gauge) >= action - ElevatedBand
    THEN <<"elevated", "ELEVATED (" \o Fmt2(Val(gauge)) \o " ft)", "#ffcc80">>
  ELSE <<"normal", "NORMAL (" \o Fmt2(Val(gauge)) \o " ft)", "#66bb6a">>

\* Mutant of stage_status: the flood and action results are exchanged.
stage_status_SwappedTiers(gauge, action, flood) ==
  IF gauge = None THEN <<"unknown", "--", "#546e7a">>
  ELSE IF Val(gauge) >= flood
    THEN <<"action", "ACTION STAGE (" \o Fmt2(Val(gauge)) \o " ft)", "#ffa726">>
  ELSE IF Val(gauge) >= action
    THEN <<"flood", "FLOOD STAGE (" \o Fmt2(Val(gauge)) \o " ft)", "#ef5350">>
  ELSE IF Val(gauge) >= action - ElevatedBand
    THEN <<"elevated", "ELEVATED (" \o Fmt2(Val(gauge)) \o " ft)", "#ffcc80">>
  ELSE <<"normal", "NORMAL (" \o Fmt2(Val(gauge)) \o " ft)", "#66bb6a">>

\* Mutant of stage_status: the action comparison is strict.
stage_status_StrictAction(gauge, action, flood) ==
  IF gauge = None THEN <<"unknown", "--", "#546e7a">>
  ELSE IF Val(gauge) >= flood
    THEN <<"flood", "FLOOD STAGE (" \o Fmt2(Val(gauge)) \o " ft)", "#ef5350">>
  ELSE IF Val(gauge) > action
    THEN <<"action", "ACTION STAGE (" \o Fmt2(Val(gauge)) \o " ft)", "#ffa726">>
  ELSE IF Val(gauge) >= action - ElevatedBand
    THEN <<"elevated", "ELEVATED (" \o Fmt2(Val(gauge)) \o " ft)", "#ffcc80">>
  ELSE <<"normal", "NORMAL (" \o Fmt2(Val(gauge)) \o " ft)", "#66bb6a">>

\* stage_status(gauge, action, flood): (status, label, colour).
stage_status(gauge, action, flood) ==
  IF gauge = None THEN <<"unknown", "--", "#546e7a">>
  ELSE IF Val(gauge) >= flood
    THEN <<"flood", "FLOOD STAGE (" \o Fmt2(Val(gauge)) \o " ft)", "#ef5350">>
  ELSE IF Val(gauge) >= action
    THEN <<"action", "ACTION STAGE (" \o Fmt2(Val(gauge)) \o " ft)", "#ffa726">>
  ELSE IF Val(gauge) >= action - ElevatedBand
    THEN <<"elevated", "ELEVATED (" \o Fmt2(Val(gauge)) \o " ft)", "#ffcc80">>
  ELSE <<"normal", "NORMAL (" \o Fmt2(Val(gauge)) \o " ft)", "#66bb6a">>

\* (x or 0)
OrZero(o) == IF Truthy(o) THEN Val(o) ELSE 0

\* ------------------------------------------------------ composite_score --

\* What one rule appends: to issues, to warnings.
Adds(i, w) == [issues |-> i, warnings |-> w]

Silent == Adds(<<>>, <<>>)

\* Mutant of StageRule: the flood comparison is strict.
StageRule_StrictFlood(river, g) ==
  IF Truthy(g) /\ Val(g) > RIVERS[river].flood_stage
    THEN Adds(<<river \o " at FLOOD STAGE">>, <<>>)
  ELSE IF Truthy(g) /\ Val(g) >= RIVERS[river].action_stage
    THEN Adds(<<river \o " at ACTION STAGE">>, <<>>)
  ELSE Silent

\* "Check flood/action stages": the body of the loop for one river.
StageRule(river, g) ==
  IF Truthy(g) /\ Val(g) >= RIVERS[river].flood_stage
    THEN Adds(<<river \o " at FLOOD STAGE">>, <<>>)
  ELSE IF Truthy(g) /\ Val(g) >= RIVERS[river].action_stage
    THEN Adds(<<river \o " at ACTION STAGE">>, <<>>)
  ELSE Silent

\* The loop over RIVERS.items(), from the i-th river on.
RECURSIVE StageIssues(_, _)
StageIssues(cd, i) ==
  IF i > Len(RiverOrder) THEN <<>>
  ELSE StageRule(RiverOrder[i], cd[RiverOrder[i]].gauge_ft).issues \o StageIssues(cd, i + 1)

\* a["event"].lower() on a null event raises AttributeError.
AlertRaises(alerts) == \E i \in 1..Len(alerts) : alerts[i].event = None

\* Mutant of IsFloodAlert: the event text is not lowered.
IsFloodAlert_CaseSensitive(a) ==
  \/ Contains(<<"f", "l", "o", "o", "d">>, Val(a.event))
  \/ Contains(<<"f", "l", "a", "s", "h">>, Val(a.event))

IsFloodAlert(a) ==
  \/ Contains(<<"f", "l", "o", "o", "d">>, Lower(Val(a.event)))
  \/ Contains(<<"f", "l", "a", "s", "h">>, Lower(Val(a.event)))

\* "NWS flood alerts"
AlertRule(alerts) ==
  LET flood_alerts == SelectSeq(alerts, IsFloodAlert)
  IN  IF flood_alerts # <<>> THEN Adds(<<"NWS FLOOD ALERT ACTIVE">>, <<>>) ELSE Silent

\* Mutant of WindRule: the second test is an if, not an elif.
WindRule_Both(ws) ==
  IF Truthy(ws) /\ Val(ws) > 250
    THEN Adds(<<"DANGEROUS WIND (" \o ToString(Fmt0(Val(ws))) \o " mph)">>,
              <<"HIGH WIND (" \o ToString(Fmt0(Val(ws))) \o " mph)">>)
  ELSE IF Truthy(ws) /\ Val(ws) > 150
    THEN Adds(<<>>, <<"HIGH WIND (" \o ToString(Fmt0(Val(ws))) \o " mph)">>)
  ELSE Silent

\* Mutant of WindRule: the comparisons are inclusive.
WindRule_Inclusive(ws) ==
  IF Truthy(ws) /\ Val(ws) >= 250
    THEN Adds(<<"DANGEROUS WIND (" \o ToString(Fmt0(Val(ws))) \o " mph)">>, <<>>)
  ELSE IF Truthy(ws) /\ Val(ws) >= 150
    THEN Adds(<<>>, <<"HIGH WIND (" \o ToString(Fmt0(Val(ws))) \o " mph)">>)
  ELSE Silent

\* "Wind"
WindRule(ws) ==
  IF Truthy(ws) /\ Val(ws) > 250
    THEN Adds(<<"DANGEROUS WIND (" \o ToString(Fmt0(Val(ws))) \o " mph)">>, <<>>)
  ELSE IF Truthy(ws) /\ Val(ws) > 150
    THEN Adds(<<>>, <<"HIGH WIND (" \o ToString(Fmt0(Val(ws))) \o " mph)">>)
  ELSE Silent

\* Mutant of PrecipRule: the comparisons are inclusive.
PrecipRule_Inclusive(prob, sum) ==
  IF OrZero(prob) >= 70 \/ OrZero(sum) >= 50
    THEN Adds(<<>>, <<"RAIN / CSO RISK">>)
  ELSE Silent

\* "Precip / CSO"
PrecipRule(prob, sum) ==
  IF OrZero(prob) > 70 \/ OrZero(sum) > 50
    THEN Adds(<<>>, <<"RAIN / CSO RISK">>)
  ELSE Silent

\* Mutant of AirRule: the comparisons are inclusive.
AirRule_Inclusive(aqi) ==
  IF Truthy(aqi) /\ Val(aqi) >= 150
    THEN Adds(<<"POOR AIR QUALITY (AQI " \o ToString(Val(aqi)) \o ")">>, <<>>)
  ELSE IF Truthy(aqi) /\ Val(aqi) >= 100
    THEN Adds(<<>>, <<"MODERATE AIR QUALITY (AQI " \o ToString(Val(aqi)) \o ")">>)
  ELSE Silent

\* "Air quality"
AirRule(aqi) ==
  IF Truthy(aqi) /\ Val(aqi) > 150
    THEN Adds(<<"POOR AIR QUALITY (AQI " \o ToString(Val(aqi)) \o ")">>, <<>>)
  ELSE IF Truthy(aqi) /\ Val(aqi) > 100
    THEN Adds(<<>>, <<"MODERATE AIR QUALITY (AQI " \o ToString(Val(aqi)) \o ")">>)
  ELSE Silent

\* "Visibility / fog": vmi in tenths of a mile.
\* Mutant of FogRule: an absent visibility is read as 0.
FogRule_AbsentAsZero(vmi) ==
  LET v == OrZero(vmi)
  IN  IF v < 5 THEN Adds(<<"DENSE FOG -- LIMITED VISIBILITY">>, <<>>)
      ELSE IF v < 20 THEN Adds(<<>>, <<"REDUCED VISIBILITY / FOG">>)
      ELSE Silent

FogRule(vmi) ==
  IF Truthy(vmi) /\ Val(vmi) < 5
    THEN Adds(<<"DENSE FOG -- LIMITED VISIBILITY">>, <<>>)
  ELSE IF Truthy(vmi) /\ Val(vmi) < 20
    THEN Adds(<<>>, <<"REDUCED VISIBILITY / FOG">>)
  ELSE Silent

\* Mutant of ThunderRule: the comparison is strict.
ThunderRule_Strict(code) ==
  IF Truthy(code) /\ Val(code) > 95
    THEN Adds(<<"THUNDERSTORM ACTIVE">>, <<>>)
  ELSE Silent

\* "Thunderstorm"
ThunderRule(code) ==
  IF Truthy(code) /\ Val(code) >= 95
    THEN Adds(<<"THUNDERSTORM ACTIVE">>, <<>>)
  ELSE Silent

\* Mutant of Verdict: only the first issue appended decides the tier.
Verdict_HeadOnly(issues, warnings) ==
  IF issues # <<>> /\ issues[1] # "THUNDERSTORM ACTIVE"
    THEN <<"STAY OFF WATER", "score-danger">>
  ELSE IF issues # <<>> \/ warnings # <<>> THEN <<"USE CAUTION", "score-caution">>
  ELSE <<"CONDITIONS FAVORABLE", "score-go">>

\* Mutant of Verdict: the warnings are tested before the issues.
Verdict_WarningsFirst(issues, warnings) ==
  IF warnings # <<>> THEN <<"USE CAUTION", "score-caution">>
  ELSE IF issues # <<>> THEN <<"STAY OFF WATER", "score-danger">>
  ELSE <<"CONDITIONS FAVORABLE", "score-go">>

\* The return statements: the label and css class for the two lists.
Verdict(issues, warnings) ==
  IF issues # <<>> THEN <<"STAY OFF WATER", "score-danger">>
  ELSE IF warnings # <<>> THEN <<"USE CAUTION", "score-caution">>
  ELSE <<"CONDITIONS FAVORABLE", "score-go">>

\* composite_score(), reading the module's globals; defined when the alert
\* rule does not raise.
composite_score ==
  LET issues ==
        StageIssues(current_data, 1)
          \o AlertRule(nws_alerts).issues
          \o WindRule(wind_speed).issues
          \o AirRule(aqi_val).issues
          \o FogRule(visibility_mi).issues
          \o ThunderRule(weather_code).issues
      warnings ==
        WindRule(wind_speed).warnings
          \o PrecipRule(precip_prob_today, precip_sum_today).warnings
          \o AirRule(aqi_val).warnings
          \o FogRule(visibility_mi).warnings
  IN  [label |-> Verdict(issues, warnings)[1], css |-> Verdict(issues, warnings)[2],
       issues |-> issues, warnings |-> warnings]

\* score_label, ..., score_issues, score_warnings = composite_score()
CompositeScore ==
  /\ pc = "score"
  /\ IF AlertRaises(nws_alerts)
       THEN /\ pc' = "crashed"
            /\ UNCHANGED scored
       ELSE /\ score_label' = composite_score.label
            /\ score_issues' = composite_score.issues
            /\ score_warnings' = composite_score.warnings
            /\ pc' = "banner"
  /\ UNCHANGED <<harness, world, fetched, parsed, rendered>>

\* ------------------------------------------------------------- rendering --

\* " . ".join(items)
RECURSIVE Join(_)
Join(items) ==
  IF items = <<>> THEN ""
  ELSE IF Len(items) = 1 THEN items[1]
  ELSE items[1] \o " . " \o Join(Tail(items))

\* all_factors[:2]
FirstTwo(items) == SubSeq(items, 1, IF Len(items) < 2 THEN Len(items) ELSE 2)

\* Mutant of Detail: the warnings come before the issues.
Detail_WarningsFirst(issues, warnings) ==
  LET all_factors == warnings \o issues
  IN  IF all_factors # <<>> THEN Join(FirstTwo(all_factors)) ELSE "All systems normal"

\* The detail line of the score banner.
Detail(issues, warnings) ==
  LET all_factors == issues \o warnings
  IN  IF all_factors # <<>> THEN Join(FirstTwo(all_factors)) ELSE "All systems normal"

RenderScoreBanner ==
  /\ pc = "banner"
  /\ detail' = Detail(score_issues, score_warnings)
  /\ pc' = "cards"
  /\ UNCHANGED <<harness, world, fetched, parsed, scored, status, stage_label, vis_str, fog_risk,
                 cloud_sub, avg_temp_c, species_advice>>

\* The river cards: stage_status() of each river's gauge.
CardStatus(cd, river) ==
  stage_status(cd[river].gauge_ft, RIVERS[river].action_stage, RIVERS[river].flood_stage)

RenderRiverCards ==
  /\ pc = "cards"
  /\ status' = [r \in RiverNames |-> CardStatus(current_data, r)[1]]
  /\ stage_label' = [r \in RiverNames |-> CardStatus(current_data, r)[2]]
  /\ pc' = "weather"
  /\ UNCHANGED <<harness, world, fetched, parsed, scored, detail, vis_str, fog_risk, cloud_sub,
                 avg_temp_c, species_advice>>

\* vis_str = f"{visibility_mi} mi" if visibility_mi else "--"
VisStr(vmi) == IF Truthy(vmi) THEN Fmt1(Val(vmi)) \o " mi" ELSE "--"

\* fog_risk of the visibility panel, vmi in tenths of a mile.
FogRisk(vmi) ==
  IF Truthy(vmi) /\ Val(vmi) < 10 THEN "HIGH"
  ELSE IF Truthy(vmi) /\ Val(vmi) < 30 THEN "MODERATE"
  ELSE "LOW"

\* f"CLOUD COVER {cloud_pct:.0f}%"
CloudSub(pct) == "CLOUD COVER " \o ToString(Val(pct)) \o "%"

RenderWeather ==
  /\ pc = "weather"
  /\ vis_str' = VisStr(visibility_mi)
  /\ fog_risk' = FogRisk(visibility_mi)
  /\ cloud_sub' = CloudSub(cloud_pct)
  /\ pc' = "species"
  /\ UNCHANGED <<harness, world, fetched, parsed, scored, detail, status, stage_label,
                 avg_temp_c, species_advice>>

\* avg_temp_c = (mon_temp or 0 + alg_temp or 0)
\*                / (2 if (mon_temp and alg_temp) else 1)
\*              if (mon_temp or alg_temp) else None
\* "+" binds tighter than "or": the dividend is mon_temp or ((0 + alg_temp)
\* or 0).  Temperatures in tenths, the result in hundredths of a degree.
AvgTempC(mon_temp, alg_temp) ==
  IF Truthy(mon_temp) \/ Truthy(alg_temp)
    THEN LET dividend == IF Truthy(mon_temp) THEN Val(mon_temp)
                         ELSE IF 0 + Val(alg_temp) # 0 THEN 0 + Val(alg_temp)
                         ELSE 0
             divisor == IF Truthy(mon_temp) /\ Truthy(alg_temp) THEN 2 ELSE 1
         IN  Some((10 * dividend) \div divisor)
  ELSE None

\* avg_temp_f = avg_temp_c * 9/5 + 32 if avg_temp_c else None, in
\* five-hundredths of a degree Fahrenheit.
AvgTempF(c) == IF Truthy(c) THEN Some(9 * Val(c) + 16000) ELSE None

\* Which advice list the if/elif chain on avg_temp_f selects.
SpeciesAdvice(f) ==
  IF Truthy(f)
    THEN IF Val(f) < 45 * 500 THEN "cold"
         ELSE IF Val(f) < 60 * 500 THEN "cool"
         ELSE "warm"
  ELSE "default"

\* The target species panel.
RenderSpecies ==
  /\ pc = "species"
  /\ LET mon_temp == current_data["Monongahela"].temp_c
         alg_temp == current_data["Allegheny"].temp_c
     IN  /\ avg_temp_c' = AvgTempC(mon_temp, alg_temp)
         /\ species_advice' = SpeciesAdvice(AvgTempF(AvgTempC(mon_temp, alg_temp)))
  /\ pc' = "done"
  /\ UNCHANGED <<harness, world, fetched, parsed, scored, detail, status, stage_label,
                 vis_str, fog_risk, cloud_sub>>

\* The page's meta refresh (or the error page's reload) runs the script
\* again from the top with fresh globals.
Rerun ==
  /\ pc \in {"done", "crashed"}
  /\ pc' = "idle"
  /\ world' = NoResponses
  /\ current_data' = EmptyReadings /\ current_err' = ""
  /\ meteo_data' = EmptyMeteo /\ nws_alerts' = <<>>
  /\ wind_speed' = None /\ weather_code' = None /\ visibility_m' = None
  /\ precip_prob_today' = None /\ precip_sum_today' = None
  /\ aqi_val' = None /\ visibility_mi' = None
  /\ precip_now' = None /\ cloud_pct' = None /\ cso_label' = ""
  /\ score_label' = "" /\ score_issues' = <<>> /\ score_warnings' = <<>>
  /\ detail' = ""
  /\ status' = [r \in RiverNames |-> ""]
  /\ stage_label' = [r \in RiverNames |-> ""]
  /\ vis_str' = "" /\ fog_risk' = "" /\ cloud_sub' = ""
  /\ avg_temp_c' = None /\ species_advice' = ""
  /\ UNCHANGED harness

Next ==
  \/ StartRun
  \/ LoadAllData
  \/ ParseOpenMeteo
  \/ CompositeScore
  \/ RenderScoreBanner
  \/ RenderRiverCards
  \/ RenderWeather
  \/ RenderSpecies
  \/ Rerun

Spec == Init /\ [][Next]_vars

\* ------------------------------------------- stage_status called directly --

StageFeet == {100 * k : k \in 0..MaxStageFt}

StageConfigs == [action : StageFeet, flood : StageFeet]

StageGauges == {None} \cup {Some(100 * k + d) : k \in (-4)..(MaxStageFt + 1), d \in (-1)..1}

\* The last two entries of a call history.
LastTwo(h) == IF Len(h) <= 2 THEN h ELSE SubSeq(h, Len(h) - 1, Len(h))

InitStage ==
  /\ pc = "idle"
  /\ world = NoResponses
  /\ NotFetched /\ NotParsed /\ NotScored /\ NotRendered
  /\ stage_cfg \in StageConfigs
  /\ stage_calls = <<>>
  /\ NoRuleEvaluated

\* A caller evaluates stage_status(gauge, action, flood).
CallStageStatus ==
  /\ \E g \in StageGauges :
       stage_calls' =
         LastTwo(Append(stage_calls,
                        [gauge |-> g,
                         result |-> stage_status(g, stage_cfg.action, stage_cfg.flood)]))
  /\ UNCHANGED <<pc, world, fetched, parsed, scored, rendered, stage_cfg, order>>

NextStage == CallStageStatus

SpecStage == InitStage /\ [][NextStage]_vars

\* ------------------------- the rules of composite_score, in any order --

\* The rules of composite_score: one per river, and the six global ones.
RuleNames == RiverNames \cup {"alert", "wind", "precip", "air", "fog", "thunder"}

\* What one rule appends, given the module's globals.
RuleOf(k) ==
  IF k \in RiverNames THEN StageRule(k, current_data[k].gauge_ft)
  ELSE IF k = "alert" THEN AlertRule(nws_alerts)
  ELSE IF k = "wind" THEN WindRule(wind_speed)
  ELSE IF k = "precip" THEN PrecipRule(precip_prob_today, precip_sum_today)
  ELSE IF k = "air" THEN AirRule(aqi_val)
  ELSE IF k = "fog" THEN FogRule(visibility_mi)
  ELSE ThunderRule(weather_code)

\* The providers' answers of the snapshots scored in every rule order: the
\* rivers, the alert and the weather code absent or alarming; the wind, the
\* precipitation, the air quality and the visibility silent, warning or
\* alarming; and everything alarming at once.
OrderWorlds ==
  Responses({TRUE}, GaugesBase, Weather({None}, CodeBase, {None}, {<<>>}, {<<>>}),
            AirQuality({None}), AlertsTable)
    \cup Responses({TRUE}, {NoGauges}, Weather(WindTable, {None}, VisTable, ProbBase, SumBase),
                    AirQuality(AqiTable), {<<>>})
    \cup {LoudWorld}

\* The script has loaded and parsed one of the snapshots and is about to
\* call composite_score.
InitOrder ==
  /\ pc = "score"
  /\ world \in OrderWorlds
  /\ current_data = fetch_usgs_current(world)
  /\ current_err = usgs_error(world)
  /\ meteo_data = fetch_open_meteo(world)
  /\ nws_alerts = fetch_nws_alerts(world)
  /\ wind_speed = world.weather.current.wind_speed_10m
  /\ weather_code = world.weather.current.weather_code
  /\ visibility_m = world.weather.current.visibility
  /\ precip_prob_today = FirstOrNone(world.weather.daily.precipitation_probability_max)
  /\ precip_sum_today = FirstOrNone(world.weather.daily.precipitation_sum)
  /\ aqi_val = world.air_quality.current.us_aqi
  /\ visibility_mi = VisibilityMi(world.weather.current.visibility)
  /\ precip_now = GetOrZero(world.weather.current.precipitation)
  /\ cloud_pct = GetOrZero(world.weather.current.cloud_cover)
  /\ LET args == CsoArgs(FirstOrNone(world.weather.daily.precipitation_sum),
                         FirstOrNone(world.weather.daily.precipitation_probability_max))
     IN  cso_label = cso_risk_from_precip(args[1], args[2])
  /\ NotScored /\ NotRendered
  /\ stage_cfg = [action |-> 0, flood |-> 0]
  /\ stage_calls = <<>>
  /\ NoRuleEvaluated

\* One rule block of composite_score runs: it appends to issues and
\* warnings.
EvaluateRule(k) ==
  /\ order_label = ""
  /\ k \notin order_done
  /\ order_done' = order_done \cup {k}
  /\ order_issues' = order_issues \o RuleOf(k).issues
  /\ order_warnings' = order_warnings \o RuleOf(k).warnings
  /\ UNCHANGED <<pc, world, fetched, parsed, scored, rendered, stage, order_label>>

\* The return statements of composite_score, once every rule has run.
ReturnVerdict ==
  /\ order_label = ""
  /\ order_done = RuleNames
  /\ order_label' = Verdict(order_issues, order_warnings)[1]
  /\ UNCHANGED <<pc, world, fetched, parsed, scored, rendered, stage, order_done,
                 order_issues, order_warnings>>

NextOrder ==
  \/ \E k \in RuleNames : EvaluateRule(k)
  \/ ReturnVerdict

SpecOrder == InitOrder /\ [][NextOrder]_vars

\* ---------------------------------------------------------------- claims --

\* composite_score() has returned and its results are assigned.
Scored == pc \in {"banner", "cards", "weather", "species", "done"}

InSeq(x, q) == \E i \in 1..Len(q) : q[i] = x

\* Number of entries of q that are in S.
Count(S, q) == Cardinality({i \in 1..Len(q) : q[i] \in S})

RiverIssueTexts(r) == {r \o " at FLOOD STAGE", r \o " at ACTION STAGE"}

DangerousWindTexts == {"DANGEROUS WIND (" \o ToString(n) \o " mph)" : n \in 0..99}

HighWindTexts == {"HIGH WIND (" \o ToString(n) \o " mph)" : n \in 0..99}

PoorAirTexts == {"POOR AIR QUALITY (AQI " \o ToString(n) \o ")" : n \in 0..500}

ModerateAirTexts == {"MODERATE AIR QUALITY (AQI " \o ToString(n) \o ")" : n \in 0..500}

\* C1: whenever composite_score returns, the verdict is "STAY OFF WATER" iff
\* issues is non-empty, "USE CAUTION" iff issues is empty and warnings is
\* not, "CONDITIONS FAVORABLE" iff both are empty.
C1_VerdictIffLists ==
  Scored =>
    /\ (score_label = "STAY OFF WATER") <=> (score_issues # <<>>)
    /\ (score_label = "USE CAUTION") <=> (score_issues = <<>> /\ score_warnings # <<>>)
    /\ (score_label = "CONDITIONS FAVORABLE") <=> (score_issues = <<>> /\ score_warnings = <<>>)

\* One issue against four warnings: the verdict is Danger.
C1_Witness ==
  /\ Scored
  /\ Len(score_issues) = 1 /\ Len(score_warnings) = 4
  /\ score_label = "STAY OFF WATER"

\* C2: when every provider request fails, the run does not raise in
\* composite_score and the verdict is Favorable with no issue and no warning.
C2_TotalOutageFavorable ==
  (/\ pc \notin {"idle", "load", "parse", "score"}
   /\ ~world.usgs_ok /\ ~world.wx_ok /\ ~world.aq_ok /\ ~world.nws_ok)
  => /\ pc # "crashed"
     /\ score_label = "CONDITIONS FAVORABLE"
     /\ score_issues = <<>>
     /\ score_warnings = <<>>

\* A run in which every request failed although the providers held alarming
\* data, scored and rendered to the end.
C2_Witness ==
  /\ pc = "done"
  /\ ~world.usgs_ok /\ ~world.wx_ok /\ ~world.aq_ok /\ ~world.nws_ok
  /\ world.gauge.Ohio = Some(RIVERS.Ohio.flood_stage)
  /\ world.alerts # <<>>
  /\ score_label = "CONDITIONS FAVORABLE"

\* C3: stage_status gives ("unknown", "--") for an absent gauge whatever the
\* thresholds; for a present gauge it gives flood iff gauge >= flood, action
\* iff action <= gauge < flood, elevated iff action - 3 ft <= gauge below
\* both, normal iff below all three.
C3_StageStatusTiers ==
  \A i \in 1..Len(stage_calls) :
    LET g == stage_calls[i].gauge
        t == stage_calls[i].result[1]
        a == stage_cfg.action
        f == stage_cfg.flood
    IN  /\ g = None => (t = "unknown" /\ stage_calls[i].result[2] = "--")
        /\ g # None =>
             /\ (t = "flood") <=> (Val(g) >= f)
             /\ (t = "action") <=> (Val(g) < f /\ Val(g) >= a)
             /\ (t = "elevated") <=> (Val(g) < f /\ Val(g) < a /\ Val(g) >= a - 300)
             /\ (t = "normal") <=> (Val(g) < f /\ Val(g) < a /\ Val(g) < a - 300)

\* A gauge exactly at the flood threshold classified flood, after a call with
\* an absent gauge.
C3_Witness ==
  /\ Len(stage_calls) = 2
  /\ stage_cfg.action < stage_cfg.flood
  /\ stage_calls[1].gauge = None /\ stage_calls[1].result[1] = "unknown"
  /\ stage_calls[2].gauge = Some(stage_cfg.flood) /\ stage_calls[2].result[1] = "flood"

TierRank(t) ==
  CASE t = "normal" -> 1 [] t = "elevated" -> 2 [] t = "action" -> 3
    [] t = "flood" -> 4 [] OTHER -> 0

\* C4: with action < flood, every present stage gets one of the four tiers
\* and a higher stage never gets a lower tier.
C4_StageStatusMonotonic ==
  stage_cfg.action < stage_cfg.flood =>
    \A i, j \in 1..Len(stage_calls) :
      LET gi == stage_calls[i].gauge
          gj == stage_calls[j].gauge
      IN  (gi # None /\ gj # None /\ Val(gi) <= Val(gj)) =>
            /\ stage_calls[i].result[1] \in {"normal", "elevated", "action", "flood"}
            /\ TierRank(stage_calls[i].result[1]) <= TierRank(stage_calls[j].result[1])

\* Two calls with rising stage and rising tier.
C4_Witness ==
  /\ Len(stage_calls) = 2
  /\ stage_cfg.action < stage_cfg.flood
  /\ stage_calls[1].gauge # None /\ stage_calls[2].gauge # None
  /\ Val(stage_calls[1].gauge) < Val(stage_calls[2].gauge)
  /\ stage_calls[1].result[1] = "elevated"
  /\ stage_calls[2].result[1] = "action"

\* C5: each river adds at most one issue: FLOOD STAGE iff its stage is
\* present and >= flood_stage, ACTION STAGE iff present and in
\* [action_stage, flood_stage), nothing otherwise; it never adds a warning.
C5_RiverIssues ==
  Scored =>
    \A r \in RiverNames :
      LET g == current_data[r].gauge_ft
      IN  /\ Count(RiverIssueTexts(r), score_issues) <= 1
          /\ Count(RiverIssueTexts(r), score_warnings) = 0
          /\ InSeq(r \o " at FLOOD STAGE", score_issues)
               <=> (g # None /\ Val(g) >= RIVERS[r].flood_stage)
          /\ InSeq(r \o " at ACTION STAGE", score_issues)
               <=> (/\ g # None
                    /\ Val(g) >= RIVERS[r].action_stage
                    /\ Val(g) < RIVERS[r].flood_stage)

\* Stage 25.0 ft at flood_stage 25.0 gives the flood issue while another
\* river sits in the elevated band (15.0 ft under an action stage of 18.0)
\* and adds nothing.
C5_Witness ==
  /\ Scored
  /\ current_data.Monongahela.gauge_ft = Some(2500)
  /\ InSeq("Monongahela at FLOOD STAGE", score_issues)
  /\ current_data.Allegheny.gauge_ft = Some(1500)
  /\ Count(RiverIssueTexts("Allegheny"), score_issues \o score_warnings) = 0

\* C6: wind > 25 mph adds one DANGEROUS WIND issue and no wind warning;
\* 15 < wind <= 25 adds one HIGH WIND warning and no wind issue; wind <= 15
\* or absent adds neither.
C6_WindRule ==
  Scored =>
    LET dangerous == wind_speed # None /\ Val(wind_speed) > 250
        high == wind_speed # None /\ Val(wind_speed) > 150 /\ Val(wind_speed) <= 250
    IN  /\ Count(DangerousWindTexts, score_issues) = (IF dangerous THEN 1 ELSE 0)
        /\ Count(HighWindTexts, score_warnings) = (IF high THEN 1 ELSE 0)
        /\ Count(HighWindTexts, score_issues) = 0
        /\ Count(DangerousWindTexts, score_warnings) = 0

\* Wind 30 mph: the issue and no wind warning.
C6_Witness ==
  /\ Scored
  /\ wind_speed = Some(300)
  /\ InSeq("DANGEROUS WIND (30 mph)", score_issues)
  /\ Count(HighWindTexts, score_warnings) = 0

\* C7: AQI > 150 adds one POOR AIR QUALITY issue; 100 < AQI <= 150 adds one
\* MODERATE AIR QUALITY warning; AQI <= 100 or absent adds neither.
C7_AirRule ==
  Scored =>
    LET poor == aqi_val # None /\ Val(aqi_val) > 150
        moderate == aqi_val # None /\ Val(aqi_val) > 100 /\ Val(aqi_val) <= 150
    IN  /\ Count(PoorAirTexts, score_issues) = (IF poor THEN 1 ELSE 0)
        /\ Count(ModerateAirTexts, score_warnings) = (IF moderate THEN 1 ELSE 0)
        /\ Count(ModerateAirTexts, score_issues) = 0
        /\ Count(PoorAirTexts, score_warnings) = 0

\* AQI exactly 150: the warning, not the issue.
C7_Witness ==
  /\ Scored
  /\ aqi_val = Some(150)
  /\ InSeq("MODERATE AIR QUALITY (AQI 150)", score_warnings)
  /\ Count(PoorAirTexts, score_issues) = 0

\* C8: for every present visibility reading, zero included, with v the
\* reading converted to miles and rounded to one decimal: v < 0.5 adds the
\* DENSE FOG issue, 0.5 <= v < 2 adds the REDUCED VISIBILITY warning,
\* v >= 2 adds neither; only an absent reading keeps the rule silent.
C8_FogRuleEveryReading ==
  Scored =>
    LET present == visibility_m # None
        v == MetersToMiles(Val(visibility_m))
    IN  /\ InSeq("DENSE FOG -- LIMITED VISIBILITY", score_issues) <=> (present /\ v < 5)
        /\ InSeq("REDUCED VISIBILITY / FOG", score_warnings)
             <=> (present /\ v >= 5 /\ v < 20)

\* C9: the fog risk shown for a visibility reading is HIGH below 0.5 mi,
\* MODERATE from 0.5 mi to below 2 mi, LOW from 2 mi on (stated here for
\* the readings the panel treats as present).
C9_FogRiskThresholds ==
  (pc = "done" /\ Truthy(visibility_mi)) =>
    fog_risk = (IF Val(visibility_mi) < 5 THEN "HIGH"
                ELSE IF Val(visibility_mi) < 20 THEN "MODERATE"
                ELSE "LOW")

\* C10: with visibility absent the fog risk shown is none of the risk
\* levels, and the fog rule adds nothing to the score.
C10_AbsentVisibilityUnknown ==
  (pc = "done" /\ visibility_m = None) =>
    /\ fog_risk \notin {"LOW", "MODERATE", "HIGH"}
    /\ ~InSeq("DENSE FOG -- LIMITED VISIBILITY", score_issues)
    /\ ~InSeq("REDUCED VISIBILITY / FOG", score_warnings)

\* The Open-Meteo fields are parsed and the CSO risk is estimated.
Parsed == pc \in {"score", "banner", "cards", "weather", "species", "done", "crashed"}

\* C11: with both precipitation inputs present, the CSO estimate is HIGH iff
\* sum >= 0.5 in or probability >= 70 %, MODERATE iff not HIGH and sum >= 0.2
\* in or probability >= 40 %, LOW otherwise.
C11_CsoRisk ==
  (Parsed /\ precip_sum_today # None /\ precip_prob_today # None) =>
    LET sum == Val(precip_sum_today)
        prob == Val(precip_prob_today)
        high == sum >= 50 \/ prob >= 70
        moderate == sum >= 20 \/ prob >= 40
    IN  /\ (cso_label = "HIGH OVERFLOW RISK") <=> high
        /\ (cso_label = "MODERATE RISK") <=> (~high /\ moderate)
        /\ (cso_label = "LOW RISK") <=> (~high /\ ~moderate)

\* Sum 0.6 in with probability 10 %: HIGH on the sum alone.
C11_Witness ==
  /\ Parsed
  /\ precip_sum_today = Some(60) /\ precip_prob_today = Some(10)
  /\ cso_label = "HIGH OVERFLOW RISK"

\* C12: the precipitation rule adds the one warning RAIN / CSO RISK exactly
\* when the probability is present and > 70 % or the sum is present and
\* > 0.5 in; it never adds an issue.
C12_PrecipRule ==
  Scored =>
    LET wet == \/ (precip_prob_today # None /\ Val(precip_prob_today) > 70)
               \/ (precip_sum_today # None /\ Val(precip_sum_today) > 50)
    IN  /\ Count({"RAIN / CSO RISK"}, score_warnings) = (IF wet THEN 1 ELSE 0)
        /\ Count({"RAIN / CSO RISK"}, score_issues) = 0

\* Probability exactly 70 % does not fire; the sum of 0.51 in does.
C12_Witness ==
  /\ Scored
  /\ precip_prob_today = Some(70) /\ precip_sum_today = Some(51)
  /\ score_warnings = <<"RAIN / CSO RISK">>
  /\ score_issues = <<>>

\* C13: NWS FLOOD ALERT ACTIVE is an issue iff some alert's event text
\* contains "flood" or "flash" in any letter case; it is added once however
\* many alerts match, and never as a warning.
C13_AlertRule ==
  Scored =>
    LET matching == {i \in 1..Len(nws_alerts) :
                       nws_alerts[i].event \in {Some(EvFlood), Some(EvFlash)}}
    IN  /\ Count({"NWS FLOOD ALERT ACTIVE"}, score_issues)
             = (IF matching # {} THEN 1 ELSE 0)
        /\ Count({"NWS FLOOD ALERT ACTIVE"}, score_warnings) = 0

\* Two matching alerts, "Flood" and "FLASH": one issue.
C13_Witness ==
  /\ Scored
  /\ nws_alerts = <<Alert(Some(EvFlood)), Alert(Some(EvFlash))>>
  /\ Count({"NWS FLOOD ALERT ACTIVE"}, score_issues) = 1

\* C14: THUNDERSTORM ACTIVE is an issue iff the weather code is present and
\* >= 95; it is never a warning.
C14_ThunderRule ==
  Scored =>
    /\ Count({"THUNDERSTORM ACTIVE"}, score_issues)
         = (IF weather_code # None /\ Val(weather_code) >= 95 THEN 1 ELSE 0)
    /\ Count({"THUNDERSTORM ACTIVE"}, score_warnings) = 0

\* Code exactly 95: the issue.
C14_Witness ==
  /\ Scored
  /\ weather_code = Some(95)
  /\ InSeq("THUNDERSTORM ACTIVE", score_issues)

\* The texts each rule can add, one set per rule.
RuleTexts ==
  {RiverIssueTexts(r) : r \in RiverNames}
    \cup {{"NWS FLOOD ALERT ACTIVE"},
          DangerousWindTexts \cup HighWindTexts,
          {"RAIN / CSO RISK"},
          PoorAirTexts \cup ModerateAirTexts,
          {"DENSE FOG -- LIMITED VISIBILITY", "REDUCED VISIBILITY / FOG"},
          {"THUNDERSTORM ACTIVE"}}

\* C15: issues and warnings share no entry; every entry comes from a rule,
\* and no rule has more than one entry over the two lists together.
C15_DisjointLists ==
  Scored =>
    /\ \A i \in 1..Len(score_issues) : ~InSeq(score_issues[i], score_warnings)
    /\ \A T \in RuleTexts : Count(T, score_issues) + Count(T, score_warnings) <= 1
    /\ \A i \in 1..Len(score_issues) : \E T \in RuleTexts : score_issues[i] \in T
    /\ \A i \in 1..Len(score_warnings) : \E T \in RuleTexts : score_warnings[i] \in T

\* Every rule has fired: eight issues and the precipitation warning.
C15_Witness ==
  /\ Scored
  /\ Len(score_issues) = 8
  /\ score_warnings = <<"RAIN / CSO RISK">>

\* One entry if its rule still has a firing input, none otherwise.
Entry(present, text) == IF present THEN <<text>> ELSE <<>>

\* What the claim expects of a variant of LoudWorld: LoudWorld's issues and
\* warnings, in order, less the entry of the rule whose input is absent.
LoudIssues(w) ==
  Entry(w.gauge["Monongahela"] # None, "Monongahela at FLOOD STAGE")
    \o Entry(w.gauge["Allegheny"] # None, "Allegheny at FLOOD STAGE")
    \o Entry(w.gauge["Ohio"] # None, "Ohio at FLOOD STAGE")
    \o Entry(w.alerts # <<>>, "NWS FLOOD ALERT ACTIVE")
    \o Entry(w.weather.current.wind_speed_10m # None, "DANGEROUS WIND (30 mph)")
    \o Entry(w.air_quality.current.us_aqi # None, "POOR AIR QUALITY (AQI 160)")
    \o Entry(w.weather.current.visibility # None, "DENSE FOG -- LIMITED VISIBILITY")
    \o Entry(w.weather.current.weather_code # None, "THUNDERSTORM ACTIVE")

LoudWarnings(w) ==
  Entry(\/ w.weather.daily.precipitation_probability_max # <<>>
        \/ w.weather.daily.precipitation_sum # <<>>, "RAIN / CSO RISK")

\* C16: from the snapshot where every rule fires, making any one optional
\* field absent never makes composite_score raise, removes at most the entry
\* of the rule reading that field, leaves every other entry as it was, and the
\* verdict stays STAY OFF WATER.
C16_AbsenceSafety ==
  world \in LoudVariants =>
    /\ pc # "crashed"
    /\ Scored =>
         /\ score_issues = LoudIssues(world)
         /\ score_warnings = LoudWarnings(world)
         /\ score_label = "STAY OFF WATER"

\* The visibility is absent: seven issues remain, the fog issue is gone.
C16_Witness ==
  /\ Scored
  /\ world = [LoudWorld EXCEPT !.weather.current.visibility = None]
  /\ Len(score_issues) = 7
  /\ ~InSeq("DENSE FOG -- LIMITED VISIBILITY", score_issues)
  /\ score_label = "STAY OFF WATER"

\* The three fetchers have returned.
Loaded == pc \notin {"idle", "load"}

\* C18: whichever requests fail, every request that succeeded still has its
\* data handed to scoring: the gauges of USGS, the weather fields of the
\* weather request, the AQI of the air-quality request, the alerts of NWS.
C18_ProviderResilience ==
  (Parsed /\ world.malformed = {}) =>
    /\ world.usgs_ok =>
         \A r \in RiverNames : current_data[r].gauge_ft = world.gauge[r]
    /\ world.wx_ok =>
         /\ wind_speed = world.weather.current.wind_speed_10m
         /\ visibility_m = world.weather.current.visibility
    /\ world.aq_ok => aqi_val = world.air_quality.current.us_aqi
    /\ world.nws_ok => nws_alerts = world.alerts

\* C19: a precipitation or cloud-cover reading absent from the weather
\* payload stays absent: the parsed current precipitation and cloud cover,
\* the two arguments of the CSO estimator and the cloud-cover panel are
\* never the number 0.
C19_AbsentNotZero ==
  Parsed =>
    LET wx_current == meteo_data.weather.current
        args == CsoArgs(precip_sum_today, precip_prob_today)
    IN  /\ wx_current.precipitation = None => precip_now # Some(0)
        /\ wx_current.cloud_cover = None => cloud_pct # Some(0)
        /\ precip_sum_today = None => args[1] # 0
        /\ precip_prob_today = None => args[2] # 0
        /\ (pc = "done" /\ wx_current.cloud_cover = None)
             => cloud_sub # "CLOUD COVER 0%"

\* C20: when the USGS request succeeds and some records of its payload do not
\* parse, the reading of every other record is still returned and no error
\* is reported.
C20_MalformedRecordIsolation ==
  (Loaded /\ world.usgs_ok /\ world.malformed # {}) =>
    /\ \A r \in RiverNames \ world.malformed :
         current_data[r].gauge_ft = world.gauge[r]
    /\ current_err = ""

\* The score banner is rendered.
BannerRendered == pc \in {"cards", "weather", "species", "done"}

\* The river cards are rendered.
CardsRendered == pc \in {"weather", "species", "done"}

\* The place of an issue in the order the claim lists: the rivers in
\* configuration order, alert, wind, air quality, visibility, thunderstorm.
IssueRank(t) ==
  IF \E i \in 1..Len(RiverOrder) : t \in RiverIssueTexts(RiverOrder[i])
    THEN CHOOSE i \in 1..Len(RiverOrder) : t \in RiverIssueTexts(RiverOrder[i])
  ELSE IF t = "NWS FLOOD ALERT ACTIVE" THEN Len(RiverOrder) + 1
  ELSE IF t \in DangerousWindTexts THEN Len(RiverOrder) + 2
  ELSE IF t \in PoorAirTexts THEN Len(RiverOrder) + 3
  ELSE IF t = "DENSE FOG -- LIMITED VISIBILITY" THEN Len(RiverOrder) + 4
  ELSE IF t = "THUNDERSTORM ACTIVE" THEN Len(RiverOrder) + 5
  ELSE 0

\* The place of a warning: wind, precipitation, air quality, visibility.
WarningRank(t) ==
  IF t \in HighWindTexts THEN 1
  ELSE IF t = "RAIN / CSO RISK" THEN 2
  ELSE IF t \in ModerateAirTexts THEN 3
  ELSE IF t = "REDUCED VISIBILITY / FOG" THEN 4
  ELSE 0

\* C22: the issues are in the order rivers (Monongahela, Allegheny, Ohio),
\* alert, wind, air quality, visibility, thunderstorm; the warnings in the
\* order wind, precipitation, air quality, visibility; the detail line is
\* the first two elements of issues followed by warnings, joined, so that a
\* warning shows only with fewer than two issues; it is "All systems normal"
\* iff both lists are empty.
C22_FactorOrder ==
  BannerRendered =>
    LET factors == score_issues \o score_warnings
    IN  /\ \A i \in 1..Len(score_issues) : IssueRank(score_issues[i]) > 0
        /\ \A i, j \in 1..Len(score_issues) :
             i < j => IssueRank(score_issues[i]) < IssueRank(score_issues[j])
        /\ \A i \in 1..Len(score_warnings) : WarningRank(score_warnings[i]) > 0
        /\ \A i, j \in 1..Len(score_warnings) :
             i < j => WarningRank(score_warnings[i]) < WarningRank(score_warnings[j])
        /\ detail = (IF factors = <<>> THEN "All systems normal"
                     ELSE IF Len(factors) = 1 THEN factors[1]
                     ELSE factors[1] \o " . " \o factors[2])
        /\ (detail = "All systems normal")
             <=> (score_issues = <<>> /\ score_warnings = <<>>)
        /\ Len(score_issues) >= 2
             => \A i \in 1..Len(score_warnings) :
                  detail # score_issues[1] \o " . " \o score_warnings[i]

\* One issue and two warnings: the detail is the issue and the first warning.
C22_Witness ==
  /\ BannerRendered
  /\ Len(score_issues) = 1 /\ Len(score_warnings) = 2
  /\ detail = score_issues[1] \o " . " \o score_warnings[1]

\* C23: for every river and gauge value the scoring rule and the river card
\* agree: the FLOOD STAGE issue iff stage_status says flood, the ACTION STAGE
\* issue iff it says action, no river issue iff it says unknown, normal or
\* elevated.
C23_ScoreAgreesWithStageStatus ==
  CardsRendered =>
    \A r \in RiverNames :
      /\ InSeq(r \o " at FLOOD STAGE", score_issues) <=> (status[r] = "flood")
      /\ InSeq(r \o " at ACTION STAGE", score_issues) <=> (status[r] = "action")
      /\ (Count(RiverIssueTexts(r), score_issues) = 0)
           <=> (status[r] \in {"unknown", "normal", "elevated"})

\* A gauge of 0.0 ft, where the rule's truthiness test and stage_status's
\* None test differ: normal on the card, no issue in the score.
C23_Witness ==
  /\ CardsRendered
  /\ current_data["Allegheny"].gauge_ft = Some(0)
  /\ status["Allegheny"] = "normal"
  /\ Count(RiverIssueTexts("Allegheny"), score_issues) = 0

\* C24: the temperature selecting the species advice is the mean of the
\* Monongahela and Allegheny temperatures when both are present, the one
\* present temperature when exactly one is, and absent, with the default
\* advice, only when both are absent; a reading of 0 degrees is present.
C24_MeanWaterTemperature ==
  pc = "done" =>
    LET mon_temp == current_data["Monongahela"].temp_c
        alg_temp == current_data["Allegheny"].temp_c
    IN  /\ (mon_temp # None /\ alg_temp # None)
             => avg_temp_c = Some(5 * (Val(mon_temp) + Val(alg_temp)))
        /\ (mon_temp # None /\ alg_temp = None) => avg_temp_c = Some(10 * Val(mon_temp))
        /\ (mon_temp = None /\ alg_temp # None) => avg_temp_c = Some(10 * Val(alg_temp))
        /\ (avg_temp_c = None) <=> (mon_temp = None /\ alg_temp = None)
        /\ (species_advice = "default") <=> (mon_temp = None /\ alg_temp = None)

\* The entries of a list, as a set.
Entries(q) == {q[i] : i \in 1..Len(q)}

\* C21: whatever the order in which the three river rules and the six
\* global rules are evaluated, the verdict is the one of the script's own
\* order, and the issues and the warnings are the same entries (their order
\* inside the two lists may differ).
C21_OrderIndependent ==
  order_label # "" =>
    /\ order_label = composite_score.label
    /\ Entries(order_issues) = Entries(composite_score.issues)
    /\ Len(order_issues) = Len(composite_score.issues)
    /\ Entries(order_warnings) = Entries(composite_score.warnings)
    /\ Len(order_warnings) = Len(composite_score.warnings)

\* All nine rules fire and were evaluated thunderstorm first, Monongahela
\* last: the reverse of the script's order for those two.
C21_Witness ==
  /\ order_label = "STAY OFF WATER"
  /\ Len(order_issues) = 8
  /\ order_issues[1] = "THUNDERSTORM ACTIVE"
  /\ order_issues[8] = "Monongahela at FLOOD STAGE"
  /\ composite_score.issues[1] = "Monongahela at FLOOD STAGE"
  /\ order_warnings = <<"RAIN / CSO RISK">>

====
